---- MODULE Spec2Model ----
(***************************************************************************)
(* Model of src/app.py: get_youtube_transcript (identifier resolution,     *)
(* track selection, flattening, failure mapping) and the Flask handler     *)
(* index() (classification of the returned string, save to disk).          *)
(*                                                                         *)
(* Python str values are TLA+ strings; Len, \o and SubSeq act on them      *)
(* character by character, so split(), "in", strip() and lower() are       *)
(* computed on the real characters.  Python None is the empty tuple <<>>   *)
(* and a present value v is <<v>>.                                         *)
(***************************************************************************)
EXTENDS Integers, Sequences, FiniteSets, TLC

VARIABLES method, video_input, provider, pc, call,
          transcript_text, error_message, filename_on_server,
          fs_errors, dir_exists, files

vars == <<method, video_input, provider, pc, call,
          transcript_text, error_message, filename_on_server,
          fs_errors, dir_exists, files>>

None == <<>>
Some(v) == <<v>>

(***************************************************************************)
(* Python str operations                                                   *)
(***************************************************************************)

\* s[i] for a 1-based position
CharAt(s, i) == SubSeq(s, i, i)

\* s[i:] for a 1-based position
From(s, i) == SubSeq(s, i, Len(s))

\* s.startswith(p) at position i
MatchAt(s, p, i) == i + Len(p) - 1 <= Len(s) /\ SubSeq(s, i, i + Len(p) - 1) = p

\* p in s
Contains(s, p) == \E i \in 1..(Len(s) - Len(p) + 1) : MatchAt(s, p, i)

\* s.startswith(p)
StartsWith(s, p) == MatchAt(s, p, 1)

\* s.find(p) as a 1-based position, 0 when absent
RECURSIVE FindFrom(_, _, _)
FindFrom(s, p, i) ==
    IF i + Len(p) - 1 > Len(s) THEN 0
    ELSE IF MatchAt(s, p, i) THEN i
    ELSE FindFrom(s, p, i + 1)

Find(s, p) == FindFrom(s, p, 1)

\* s.split(sep): the pieces between the non-overlapping occurrences of sep,
\* scanned left to right
RECURSIVE Split(_, _)
Split(s, sep) ==
    LET i == Find(s, sep)
    IN IF i = 0 THEN <<s>>
       ELSE <<SubSeq(s, 1, i - 1)>> \o Split(From(s, i + Len(sep)), sep)

\* seq[-1]
Last(seq) == seq[Len(seq)]

Digits == {"0", "1", "2", "3", "4", "5", "6", "7", "8", "9"}
LowerLetters == "abcdefghijklmnopqrstuvwxyz"
UpperLetters == "ABCDEFGHIJKLMNOPQRSTUVWXYZ"
Letters == {CharAt(LowerLetters, i) : i \in 1..26} \cup {CharAt(UpperLetters, i) : i \in 1..26}

\* c.isalnum() for a single character
IsAlnum(c) == c \in Digits \/ c \in Letters

\* c.isalnum() or c in ['-', '_']
IsIdChar(c) == IsAlnum(c) \/ c \in {"-", "_"}

\* c.isspace() for the white space the model's strings hold
IsSpace(c) == c \in {" ", "\t", "\n"}

\* s.lower()
LowerChar(c) ==
    IF \E i \in 1..26 : CharAt(UpperLetters, i) = c
    THEN CharAt(LowerLetters, CHOOSE i \in 1..26 : CharAt(UpperLetters, i) = c)
    ELSE c

RECURSIVE Lower(_)
Lower(s) == IF s = "" THEN "" ELSE LowerChar(CharAt(s, 1)) \o Lower(From(s, 2))

\* s.strip()
RECURSIVE LStrip(_)
LStrip(s) == IF s # "" /\ IsSpace(CharAt(s, 1)) THEN LStrip(From(s, 2)) ELSE s

RECURSIVE RStrip(_)
RStrip(s) ==
    IF s # "" /\ IsSpace(CharAt(s, Len(s))) THEN RStrip(SubSeq(s, 1, Len(s) - 1)) ELSE s

Strip(s) == RStrip(LStrip(s))

\* "".join(c for c in s if c.isalnum() or c in ('_', '-'))
RECURSIVE KeepIdChars(_)
KeepIdChars(s) ==
    IF s = "" THEN ""
    ELSE (IF IsIdChar(CharAt(s, 1)) THEN CharAt(s, 1) ELSE "") \o KeepIdChars(From(s, 2))

\* s[:n]
Prefix(s, n) == IF Len(s) <= n THEN s ELSE SubSeq(s, 1, n)

(***************************************************************************)
(* Values crossing a call: what a piece of code produced.  kind is         *)
(* "value" (an expression's value), "return" (get_youtube_transcript       *)
(* returned val; path names the return statement) or "raise" (exc          *)
(* propagates).                                                            *)
(***************************************************************************)
NoExc == [type |-> "", msg |-> ""]
Exc(t, m) == [type |-> t, msg |-> m]
Value(v) == [kind |-> "value", val |-> v, exc |-> NoExc, path |-> ""]
Return(s, p) == [kind |-> "return", val |-> s, exc |-> NoExc, path |-> p]
Raise(e) == [kind |-> "raise", val |-> "", exc |-> e, path |-> ""]

\* the classes that "except Exception" does not catch
BaseOnlyTypes == {"KeyboardInterrupt", "SystemExit", "GeneratorExit"}
IsException(e) == e.type \notin BaseOnlyTypes

(***************************************************************************)
(* Identifier resolution, app.py:24-36                                     *)
(***************************************************************************)
WatchMarker == "youtube.com/watch?v="
ShortLinkMarker == "youtu.be/"
ShortsMarker == "youtube.com/shorts/"

\* IsPlausibleId without the test of the length
IsPlausibleIdAnyLength(s) == \A i \in 1..Len(s) : IsIdChar(CharAt(s, i))

\* all(c.isalnum() or c in ['-', '_'] for c in s) and len(s) == 11
IsPlausibleId(s) == (\A i \in 1..Len(s) : IsIdChar(CharAt(s, i))) /\ Len(s) = 11

\* video_id after the if/elif chain; None on the branch that returns
ResolveWatch(s) == Split(Split(s, "v=")[2], "&")[1]
ResolveShortLink(s) == Split(Last(Split(s, "/")), "?")[1]
ResolveShorts(s) == Split(Split(s, "shorts/")[2], "?")[1]

ResolveId(s) ==
    IF Contains(s, WatchMarker) THEN Some(ResolveWatch(s))
    ELSE IF Contains(s, ShortLinkMarker) THEN Some(ResolveShortLink(s))
    ELSE IF Contains(s, ShortsMarker) THEN Some(ResolveShorts(s))
    ELSE IF IsPlausibleId(s) THEN Some(s)
    ELSE None

(***************************************************************************)
(* The transcript provider (youtube_transcript_api), an opaque             *)
(* collaborator.  One request's provider behaviour is a record:            *)
(*   tracks    the tracks in the provider's enumeration order              *)
(*   fault     a step of the provider that raises, and what it raises      *)
(*   segments  what fetch() yields for the chosen track                    *)
(*   ntf_takes_message  whether the installed library lets                 *)
(*             NoTranscriptFound be constructed from one message; its      *)
(*             constructor is (video_id, requested_language_codes,         *)
(*             transcript_data), the source pins no version                *)
(***************************************************************************)
NoFault == [step |-> "none", exc |-> NoExc]

\* transcript_list.find_manually_created_transcript(codes) /
\* transcript_list.find_generated_transcript(codes): the track of that origin
\* whose language code is the first of codes on offer
Matching(tracks, generated, codes) ==
    {i \in 1..Len(tracks) :
        tracks[i].is_generated = generated /\ \E k \in 1..Len(codes) : tracks[i].language_code = codes[k]}

FindTranscript(P, step, generated, codes) ==
    IF P.fault.step = step THEN Raise(P.fault.exc)
    ELSE IF Matching(P.tracks, generated, codes) = {}
         THEN Raise(Exc("NoTranscriptFound", "No transcripts were found for any of the requested language codes"))
         ELSE Value(Some(P.tracks[CHOOSE i \in Matching(P.tracks, generated, codes) :
                                     \A j \in Matching(P.tracks, generated, codes) : i <= j]))

\* raise NoTranscriptFound("No transcripts available at all for this video.")
RaiseNoTranscriptFound(P) ==
    IF P.ntf_takes_message
    THEN Raise(Exc("NoTranscriptFound", "No transcripts available at all for this video."))
    ELSE Raise(Exc("TypeError", "__init__() missing 2 required positional arguments: 'requested_language_codes' and 'transcript_data'"))

\* the body of the innermost try, app.py:54-59
FirstAvailable(P) ==
    IF P.fault.step = "enumerate" THEN Raise(P.fault.exc)
    ELSE IF P.tracks = <<>> THEN RaiseNoTranscriptFound(P)
    ELSE Value(Some(P.tracks[1]))

\* app.py:53-63
Fallback(inp, P) ==
    LET f == FirstAvailable(P)
    IN IF f.kind = "value" THEN f
       ELSE IF f.exc.type = "NoTranscriptFound" THEN f
       ELSE IF IsException(f.exc)
            THEN Return("No English transcript found and failed to fetch an alternative for video: "
                        \o inp \o ". Error: " \o f.exc.msg, "alternative_failed")
            ELSE f

\* SelectTranscript with the two English searches in the other order
SelectTranscriptGeneratedFirst(inp, P) ==
    LET g == FindTranscript(P, "find_generated", TRUE, <<"en">>)
    IN IF g.kind = "value" \/ g.exc.type # "NoTranscriptFound" THEN g
       ELSE LET m == FindTranscript(P, "find_manual", FALSE, <<"en">>)
            IN IF m.kind = "value" \/ m.exc.type # "NoTranscriptFound" THEN m
               ELSE Fallback(inp, P)

\* app.py:44-63: transcript_to_fetch, or the return or the exception that ends the search
SelectTranscript(inp, P) ==
    LET m == FindTranscript(P, "find_manual", FALSE, <<"en">>)
    IN IF m.kind = "value" \/ m.exc.type # "NoTranscriptFound" THEN m
       ELSE LET g == FindTranscript(P, "find_generated", TRUE, <<"en">>)
            IN IF g.kind = "value" \/ g.exc.type # "NoTranscriptFound" THEN g
               ELSE Fallback(inp, P)

(***************************************************************************)
(* Flattening, app.py:70-96.  A segment is [shape, text]:                  *)
(*   dict             entry['text'] is text                                *)
(*   dict_no_text     a mapping without the key: KeyError                  *)
(*   dict_text_none   entry['text'] is None: None + " " is a TypeError     *)
(*   object           not subscriptable, entry.text is text                *)
(*   object_no_text   not subscriptable, no attribute text                 *)
(*   object_text_none not subscriptable, entry.text is None                *)
(*   namedtuple       integer-indexed: entry['text'] is a TypeError that   *)
(*                    does not say "not subscriptable"; entry.text is text *)
(*   list             integer-indexed like namedtuple, no attribute text   *)
(*   raising          entry['text'] raises some other exception            *)
(***************************************************************************)
NotSubscriptable == Exc("TypeError", "'FetchedTranscriptSnippet' object is not subscriptable")
NoneConcat == Exc("TypeError", "unsupported operand type(s) for +: 'NoneType' and 'str'")

\* entry['text'] + " "
ReadItem(entry) ==
    CASE entry.shape = "dict" -> Value(entry.text \o " ")
      [] entry.shape = "dict_no_text" -> Raise(Exc("KeyError", "'text'"))
      [] entry.shape = "dict_text_none" -> Raise(NoneConcat)
      [] entry.shape \in {"object", "object_no_text", "object_text_none"} -> Raise(NotSubscriptable)
      [] entry.shape = "namedtuple" -> Raise(Exc("TypeError", "tuple indices must be integers or slices, not str"))
      [] entry.shape = "list" -> Raise(Exc("TypeError", "list indices must be integers or slices, not str"))
      [] entry.shape = "raising" -> Raise(Exc("ValueError", "malformed segment"))

\* hasattr(entry, 'text')
HasAttrText(entry) == entry.shape \in {"object", "object_text_none", "namedtuple"}

\* entry.text + " "
ReadAttr(entry) ==
    IF entry.shape = "object_text_none" THEN Raise(NoneConcat) ELSE Value(entry.text \o " ")

\* one pass of the loop body, app.py:72-94: the fragment appended, or the
\* exception that leaves the loop
SegmentFragment(entry) ==
    LET t == ReadItem(entry)
    IN IF t.kind = "value" THEN t
       ELSE IF t.exc.type = "TypeError"
            THEN IF Contains(Lower(t.exc.msg), "is not subscriptable")
                 THEN IF HasAttrText(entry)
                      THEN LET a == ReadAttr(entry)
                           IN IF a.kind = "value" \/ ~IsException(a.exc) THEN a
                              ELSE Value("[text extraction failed] ")
                      ELSE Value("[text extraction failed] ")
                 ELSE t
       ELSE IF t.exc.type = "KeyError" THEN Value("[text key missing] ")
       ELSE IF IsException(t.exc) THEN Value("[segment processing error] ")
       ELSE t

\* app.py:70-96
RECURSIVE FlattenFrom(_, _, _)
FlattenFrom(segs, i, formatted_transcript) ==
    IF i > Len(segs) THEN Return(Strip(formatted_transcript), "flattened")
    ELSE LET f == SegmentFragment(segs[i])
         IN IF f.kind = "raise" THEN f
            ELSE FlattenFrom(segs, i + 1, formatted_transcript \o f.val)

Flatten(segs) == FlattenFrom(segs, 1, "")

(***************************************************************************)
(* get_youtube_transcript, app.py:10-115                                   *)
(***************************************************************************)
\* app.py:42-96 with video_id resolved: the try body after the resolution
TryBody(inp, video_id, P) ==
    IF P.fault.step = "list_transcripts" THEN Raise(P.fault.exc)
    ELSE LET sel == SelectTranscript(inp, P)
         IN IF sel.kind # "value" THEN sel
            ELSE IF sel.val = None
                 THEN Return("Could not determine a transcript to fetch for video: " \o inp, "undetermined")
            ELSE IF P.fault.step = "fetch" THEN Raise(P.fault.exc)
            ELSE Flatten(P.segments)

\* f"{video_id}"
Str(video_id) == IF video_id = None THEN "None" ELSE video_id[1]
Truthy(video_id) == video_id # None /\ video_id # Some("")

\* Handle without the last clause, except Exception
HandleNoCatchAll(e, inp, video_id) ==
    IF e.type = "TranscriptsDisabled"
    THEN Return("Transcripts are disabled for the video: " \o inp, "disabled")
    ELSE IF e.type = "NoTranscriptFound"
    THEN Return("No transcript could be found for the video: " \o inp \o "."
                \o (IF Truthy(video_id) THEN " (Processed Video ID: " \o Str(video_id) \o ")." ELSE "")
                \o " This could be due to an incorrect video ID, the video not having any transcripts, the video being unavailable, or the requested language not being available.",
                "not_found")
    ELSE IF e.type = "ParseError"
    THEN Return("XML ParseError: " \o e.msg \o ". This often occurs with live streams (like '"
                \o Str(video_id) \o "'), videos with no valid transcript data, or if YouTube returns an empty/malformed transcript file."
                \o (IF Truthy(video_id) THEN " (While processing Video ID: " \o Str(video_id) \o ")" ELSE ""),
                "parse_error")
    ELSE Raise(e)

\* the except clauses, app.py:98-115
Handle(e, inp, video_id) ==
    IF e.type = "TranscriptsDisabled"
    THEN Return("Transcripts are disabled for the video: " \o inp, "disabled")
    ELSE IF e.type = "NoTranscriptFound"
    THEN Return("No transcript could be found for the video: " \o inp \o "."
                \o (IF Truthy(video_id) THEN " (Processed Video ID: " \o Str(video_id) \o ")." ELSE "")
                \o " This could be due to an incorrect video ID, the video not having any transcripts, the video being unavailable, or the requested language not being available.",
                "not_found")
    ELSE IF e.type = "ParseError"
    THEN Return("XML ParseError: " \o e.msg \o ". This often occurs with live streams (like '"
                \o Str(video_id) \o "'), videos with no valid transcript data, or if YouTube returns an empty/malformed transcript file."
                \o (IF Truthy(video_id) THEN " (While processing Video ID: " \o Str(video_id) \o ")" ELSE ""),
                "parse_error")
    ELSE IF IsException(e)
    THEN Return("An unexpected error occurred: " \o e.type \o " - " \o e.msg
                \o (IF Truthy(video_id) THEN " (While processing Video ID: " \o Str(video_id) \o ")" ELSE ""),
                "unexpected")
    ELSE Raise(e)

\* whether the call reaches YouTubeTranscriptApi.list_transcripts (app.py:42)
CallsProvider(inp) == Truthy(ResolveId(inp))

get_youtube_transcript(inp, P) ==
    LET video_id == ResolveId(inp)
    IN IF video_id = None THEN Return("Invalid video ID or URL format: " \o inp, "invalid_format")
       ELSE IF ~Truthy(video_id) THEN Return("Could not extract Video ID from: " \o inp, "no_video_id")
       ELSE LET b == TryBody(inp, video_id[1], P)
            IN IF b.kind = "raise" THEN Handle(b.exc, inp, video_id) ELSE b

\* the track whose fetch() the call invokes (app.py:68), None when it gets to none
FetchedTrack(inp, P) ==
    IF ~CallsProvider(inp) \/ P.fault.step = "list_transcripts" THEN None
    ELSE LET sel == SelectTranscript(inp, P)
         IN IF sel.kind = "value" THEN sel.val ELSE None


(***************************************************************************)
(* index(), app.py:118-190.  Each request r runs the handler; requests     *)
(* are served by separate workers, so they interleave at the calls into    *)
(* the file system.  pc[r]:                                                *)
(*   request  -> (Post)     -> exists | render | error500                  *)
(*   exists   -> (Exists)   -> makedirs | open                             *)
(*   makedirs -> (MakeDirs) -> open                                        *)
(*   open     -> (Write)    -> render                                      *)
(*   render   -> (Render)   -> done                                        *)
(***************************************************************************)
Requests == {"r1", "r2"}

\* What one call of get_youtube_transcript did: its outcome, the video_id it
\* resolved, whether it reached list_transcripts and the track it fetched.
NoCall ==
    [kind |-> "none", val |-> "", exc |-> NoExc, path |-> "",
     video_id |-> None, listed |-> FALSE, fetched |-> None]

CallRecord(inp, P) ==
    LET c == get_youtube_transcript(inp, P)
    IN [kind |-> c.kind, val |-> c.val, exc |-> c.exc, path |-> c.path,
        video_id |-> ResolveId(inp), listed |-> CallsProvider(inp), fetched |-> FetchedTrack(inp, P)]

error_indicators ==
    <<"Transcripts are disabled", "No transcript", "An unexpected error occurred",
      "Could not determine", "XML ParseError", "Invalid video ID",
      "[text extraction failed]", "[text key missing]", "[segment processing error]">>

\* is_error after the loop, app.py:132-141
IsError(text) ==
    \E k \in 1..Len(error_indicators) :
        StartsWith(text, error_indicators[k]) \/ Contains(text, error_indicators[k])

save_directory == "saved_transcripts"

\* vid_id_part, app.py:163-169
VidIdPart(inp) ==
    IF Contains(inp, "v=") THEN Split(Split(inp, "v=")[2], "&")[1]
    ELSE IF Contains(inp, "youtu.be/") THEN Split(Last(Split(inp, "/")), "?")[1]
    ELSE IF Contains(inp, "youtube.com/shorts/") THEN Split(Split(inp, "shorts/")[2], "?")[1]
    ELSE inp

FilenameChars == 50

\* safe_vid_id, app.py:172-173
SafeVidId(inp) ==
    LET safe == Prefix(Strip(KeepIdChars(VidIdPart(inp))), FilenameChars)
    IN IF safe = "" THEN "unknown_video" ELSE safe

\* filename_on_server_temp and filepath, app.py:175-176
Filename(inp) == "transcript_" \o SafeVidId(inp) \o ".txt"
Filepath(inp) == save_directory \o "/" \o Filename(inp)

\* error_message or ""
OrEmpty(m) == IF m = None \/ m = Some("") THEN "" ELSE m[1]

\* app.py:124-147: the form is read, get_youtube_transcript runs and its
\* string is classified
Post(r) ==
    /\ pc[r] = "request"
    /\ IF method[r] # "POST"
       THEN /\ pc' = [pc EXCEPT ![r] = "render"]
            /\ UNCHANGED <<call, transcript_text, error_message>>
       ELSE IF video_input[r] = ""
       THEN /\ error_message' = [error_message EXCEPT ![r] = Some("Please enter a YouTube Video ID or URL.")]
            /\ pc' = [pc EXCEPT ![r] = "render"]
            /\ UNCHANGED <<call, transcript_text>>
       ELSE LET c == CallRecord(video_input[r], provider[r])
            IN /\ call' = [call EXCEPT ![r] = c]
               /\ IF c.kind = "raise"
                  THEN /\ pc' = [pc EXCEPT ![r] = "error500"]
                       /\ UNCHANGED <<transcript_text, error_message>>
                  ELSE IF IsError(c.val)
                  THEN /\ error_message' = [error_message EXCEPT ![r] = Some(c.val)]
                       /\ transcript_text' = [transcript_text EXCEPT ![r] = None]
                       /\ pc' = [pc EXCEPT ![r] = "render"]
                  ELSE IF c.val = ""
                  THEN /\ error_message' = [error_message EXCEPT ![r] = Some("No transcript content was generated or fetched.")]
                       /\ transcript_text' = [transcript_text EXCEPT ![r] = Some(c.val)]
                       /\ pc' = [pc EXCEPT ![r] = "render"]
                  ELSE /\ transcript_text' = [transcript_text EXCEPT ![r] = Some(c.val)]
                       /\ pc' = [pc EXCEPT ![r] = "exists"]
                       /\ UNCHANGED error_message
    /\ UNCHANGED <<method, video_input, provider, filename_on_server, fs_errors, dir_exists, files>>

\* app.py:153: os.path.exists(save_directory)
Exists(r) ==
    /\ pc[r] = "exists"
    /\ pc' = [pc EXCEPT ![r] = IF dir_exists THEN "open" ELSE "makedirs"]
    /\ UNCHANGED <<method, video_input, provider, call, transcript_text, error_message,
                   filename_on_server, fs_errors, dir_exists, files>>

\* app.py:154-159: os.makedirs(save_directory).  It fails when the directory
\* has appeared since the test (FileExistsError) or when the system refuses.
MakeDirs(r) ==
    /\ pc[r] = "makedirs"
    /\ \E granted \in BOOLEAN :
          IF ~dir_exists /\ granted
          THEN /\ dir_exists' = TRUE
               /\ UNCHANGED <<error_message, fs_errors>>
          ELSE /\ error_message' = [error_message EXCEPT ![r] =
                      Some(OrEmpty(@) \o " (Could not create save directory on server: "
                           \o (IF dir_exists THEN "[Errno 17] File exists: 'saved_transcripts'"
                                             ELSE "[Errno 13] Permission denied: 'saved_transcripts'")
                           \o ")")]
               /\ fs_errors' = [fs_errors EXCEPT ![r] = @ \cup {"makedirs"}]
               /\ UNCHANGED dir_exists
    /\ pc' = [pc EXCEPT ![r] = "open"]
    /\ UNCHANGED <<method, video_input, provider, call, transcript_text, filename_on_server, files>>

\* Write that reports the file name even when the write failed
WriteKeepsFilename(r) ==
    /\ pc[r] = "open"
    /\ \E granted \in BOOLEAN :
          IF dir_exists /\ granted
          THEN /\ files' = {f \in files : f.path # Filepath(video_input[r])}
                              \cup {[path |-> Filepath(video_input[r]), content |-> transcript_text[r][1], by |-> r]}
               /\ filename_on_server' = [filename_on_server EXCEPT ![r] = Some(Filename(video_input[r]))]
               /\ UNCHANGED <<error_message, fs_errors>>
          ELSE /\ error_message' = [error_message EXCEPT ![r] =
                      LET e == IF dir_exists THEN "[Errno 28] No space left on device"
                                             ELSE "[Errno 2] No such file or directory: '" \o Filepath(video_input[r]) \o "'"
                          error_detail == " (Transcript fetched, but error saving to file: " \o e \o ")"
                      IN IF OrEmpty(@) # "" THEN Some(@[1] \o error_detail) ELSE Some(From(error_detail, 2))]
               /\ filename_on_server' = [filename_on_server EXCEPT ![r] = Some(Filename(video_input[r]))]
               /\ fs_errors' = [fs_errors EXCEPT ![r] = @ \cup {"write"}]
               /\ UNCHANGED files
    /\ pc' = [pc EXCEPT ![r] = "render"]
    /\ UNCHANGED <<method, video_input, provider, call, transcript_text, dir_exists>>

\* app.py:163-188: the file name is derived and the file written.  The write
\* fails when the directory is missing or when the system refuses.
Write(r) ==
    /\ pc[r] = "open"
    /\ \E granted \in BOOLEAN :
          IF dir_exists /\ granted
          THEN /\ files' = {f \in files : f.path # Filepath(video_input[r])}
                              \cup {[path |-> Filepath(video_input[r]), content |-> transcript_text[r][1], by |-> r]}
               /\ filename_on_server' = [filename_on_server EXCEPT ![r] = Some(Filename(video_input[r]))]
               /\ UNCHANGED <<error_message, fs_errors>>
          ELSE /\ error_message' = [error_message EXCEPT ![r] =
                      LET e == IF dir_exists THEN "[Errno 28] No space left on device"
                                             ELSE "[Errno 2] No such file or directory: '" \o Filepath(video_input[r]) \o "'"
                          error_detail == " (Transcript fetched, but error saving to file: " \o e \o ")"
                      IN IF OrEmpty(@) # "" THEN Some(@[1] \o error_detail) ELSE Some(From(error_detail, 2))]
               /\ filename_on_server' = [filename_on_server EXCEPT ![r] = None]
               /\ fs_errors' = [fs_errors EXCEPT ![r] = @ \cup {"write"}]
               /\ UNCHANGED files
    /\ pc' = [pc EXCEPT ![r] = "render"]
    /\ UNCHANGED <<method, video_input, provider, call, transcript_text, dir_exists>>

\* app.py:190: render_template(...) with the three values
Render(r) ==
    /\ pc[r] = "render"
    /\ pc' = [pc EXCEPT ![r] = "done"]
    /\ UNCHANGED <<method, video_input, provider, call, transcript_text, error_message,
                   filename_on_server, fs_errors, dir_exists, files>>

Next == \E r \in Requests : Post(r) \/ Exists(r) \/ MakeDirs(r) \/ Write(r) \/ Render(r)

(***************************************************************************)
(* Inputs and provider behaviours the specifications draw from             *)
(***************************************************************************)
MaxPieces == 3
MaxTracks == 2
MaxSegments == 2

\* the fragments form inputs are put together from
Pieces ==
    {"https://www.youtube.com/watch?v=", "https://youtu.be/", "https://www.youtube.com/shorts/",
     "abc123XYZ_-", "dQw4w9WgXc", "Q", "&t=10s", "?v=", "!"}

RECURSIVE Concats(_)
Concats(n) == IF n = 0 THEN {""} ELSE {p \o s : p \in Pieces, s \in Concats(n - 1)}

ResolveInputs == UNION {Concats(n) : n \in 1..MaxPieces}

Tracks == [language_code : {"en", "es", "en-GB"}, is_generated : BOOLEAN]

TrackLists ==
    {t \in UNION {[1..n -> Tracks] : n \in 0..MaxTracks} :
        \A i, j \in 1..Len(t) : t[i] = t[j] => i = j}

\* what a failing step of the provider raises
FaultExcs ==
    {Exc("TranscriptsDisabled", "Subtitles are disabled for this video"),
     Exc("NoTranscriptFound", "No transcripts were found"),
     Exc("ParseError", "no element found: line 1, column 0"),
     Exc("VideoUnavailable", "The video is no longer available")}

\* the find_* calls raise NoTranscriptFound exactly when no track matches
Faults ==
    {NoFault} \cup
    {f \in [step : {"list_transcripts", "find_manual", "find_generated", "enumerate", "fetch"},
            exc : FaultExcs] :
        f.step \in {"find_manual", "find_generated"} => f.exc.type # "NoTranscriptFound"}

Segments ==
    [shape : {"dict", "object", "namedtuple"}, text : {"Never gonna", "give you up "}]
    \cup [shape : {"dict_no_text", "dict_text_none", "object_no_text", "object_text_none", "list", "raising"},
          text : {""}]

SegmentLists == UNION {[1..n -> Segments] : n \in 0..MaxSegments}

GoodSegments == <<[shape |-> "dict", text |-> "Never gonna"], [shape |-> "object", text |-> "give you up "]>>

GoodProvider ==
    [tracks |-> <<[language_code |-> "en", is_generated |-> FALSE]>>, fault |-> NoFault,
     segments |-> GoodSegments, ntf_takes_message |-> FALSE]

DisabledProvider ==
    [GoodProvider EXCEPT !.fault = [step |-> "list_transcripts",
                                    exc |-> Exc("TranscriptsDisabled", "Subtitles are disabled for this video")]]

SelectProviders ==
    [tracks : TrackLists, fault : Faults, segments : {GoodSegments}, ntf_takes_message : BOOLEAN]

FlattenProviders ==
    [tracks : {GoodProvider.tracks}, fault : {NoFault}, segments : SegmentLists, ntf_takes_message : {FALSE}]

WebInputs ==
    {"", "abc123XYZ_-", "https://youtu.be/abc123XYZ_-.", "https://youtu.be/abc123XYZ_-?v=1",
     "https://youtu.be/dQw4w9WgXcQ?v=1", "https://www.youtube.com/watch?v=dQw4w9WgXcQ&t=10s"}

\* a GET is served by Post and Render alone; the specifications with one POST
\* start when the GET beside it has been served
InitRest ==
    /\ call = [r \in Requests |-> NoCall]
    /\ transcript_text = [r \in Requests |-> None]
    /\ error_message = [r \in Requests |-> None]
    /\ filename_on_server = [r \in Requests |-> None]
    /\ fs_errors = [r \in Requests |-> {}]
    /\ files = {}

\* one POST with an input put together from Pieces, beside a GET
InitResolve ==
    /\ method = [r \in Requests |-> IF r = "r1" THEN "POST" ELSE "GET"]
    /\ \E s \in ResolveInputs : video_input = [r \in Requests |-> IF r = "r1" THEN s ELSE ""]
    /\ provider = [r \in Requests |-> GoodProvider]
    /\ pc = [r \in Requests |-> IF r = "r1" THEN "request" ELSE "done"]
    /\ dir_exists = FALSE
    /\ InitRest

\* one POST against every provider behaviour, beside a GET
InitFetch ==
    /\ method = [r \in Requests |-> IF r = "r1" THEN "POST" ELSE "GET"]
    /\ video_input = [r \in Requests |-> IF r = "r1" THEN "https://youtu.be/abc123XYZ_-?si=xyz" ELSE ""]
    /\ \E P \in SelectProviders \cup FlattenProviders :
          provider = [r \in Requests |-> IF r = "r1" THEN P ELSE GoodProvider]
    /\ pc = [r \in Requests |-> IF r = "r1" THEN "request" ELSE "done"]
    /\ dir_exists = FALSE
    /\ InitRest

\* two requests served at once
InitWeb ==
    /\ method \in {m \in [Requests -> {"GET", "POST"}] : m["r1"] = "POST"}
    /\ video_input \in {v \in [Requests -> WebInputs] : \A r \in Requests : method[r] = "GET" => v[r] = ""}
    /\ provider \in {q \in [Requests -> {GoodProvider, DisabledProvider}] :
                        \A r \in Requests : method[r] = "GET" => q[r] = GoodProvider}
    /\ pc = [r \in Requests |-> "request"]
    /\ dir_exists \in BOOLEAN
    /\ InitRest

SpecResolve == InitResolve /\ [][Next]_vars
SpecFetch == InitFetch /\ [][Next]_vars
SpecWeb == InitWeb /\ [][Next]_vars

(***************************************************************************)
(* Properties                                                              *)
(***************************************************************************)
Called(r) == call[r].kind # "none"
Rendered(r) == pc[r] \in {"render", "done"}

\* the track the preference order names: the manually created track with
\* language code en, else the generated one with language code en, else the
\* first track the provider enumerates
IsEnglish(t) == t.language_code = "en"
Preferred(tracks) ==
    IF \E i \in 1..Len(tracks) : IsEnglish(tracks[i]) /\ ~tracks[i].is_generated
    THEN CHOOSE t \in Tracks : IsEnglish(t) /\ ~t.is_generated
    ELSE IF \E i \in 1..Len(tracks) : IsEnglish(tracks[i]) /\ tracks[i].is_generated
    THEN CHOOSE t \in Tracks : IsEnglish(t) /\ t.is_generated
    ELSE tracks[1]

\* C1: whenever a call fetches a track, that track is the preferred one of
\* the tracks on offer; and when the provider offers at least one track and no
\* step fails, the call fetches a track and returns its flattened text.
C1_PreferenceOrder ==
    \A r \in Requests :
        Called(r) /\ call[r].listed =>
            /\ call[r].fetched # None =>
                   /\ provider[r].tracks # <<>>
                   /\ call[r].fetched = Some(Preferred(provider[r].tracks))
            /\ (provider[r].tracks # <<>> /\ provider[r].fault = NoFault /\ provider[r].segments = GoodSegments) =>
                   /\ call[r].fetched # None
                   /\ call[r].path = "flattened"
                   /\ call[r].val = "Never gonna give you up"

\* a provider with only a Spanish auto-generated track had it fetched and
\* its text returned
C1_Witness ==
    \E r \in Requests :
        /\ pc[r] = "done"
        /\ provider[r].tracks = <<[language_code |-> "es", is_generated |-> TRUE]>>
        /\ call[r].fetched = Some([language_code |-> "es", is_generated |-> TRUE])
        /\ call[r].val = "Never gonna give you up"

\* C2: when the identifier resolves, no provider step fails and the provider
\* enumerates no track at all, the call returns the not-found message with the
\* input and the resolved identifier.
C2_NotFoundMessage ==
    \A r \in Requests :
        (Called(r) /\ call[r].listed /\ provider[r].fault = NoFault /\ provider[r].tracks = <<>>) =>
            /\ call[r].kind = "return"
            /\ StartsWith(call[r].val, "No transcript could be found for the video: " \o video_input[r] \o ".")
            /\ Contains(call[r].val, "(Processed Video ID: " \o call[r].video_id[1] \o ")")

\* C3: get_youtube_transcript ends by returning a string, whatever the
\* provider raises and at whatever step; no exception reaches index().
C3_NoEscape ==
    \A r \in Requests : pc[r] # "error500" /\ call[r].kind \in {"none", "return"}

\* a provider exception with no clause of its own was turned into a string
C3_Witness ==
    \E r \in Requests :
        /\ provider[r].fault.step = "fetch"
        /\ provider[r].fault.exc.type = "VideoUnavailable"
        /\ call[r].kind = "return"
        /\ call[r].path = "unexpected"

\* what a segment is to contribute: its text and a space when the mapping or
\* the attribute gives a text, one placeholder otherwise
Placeholders == {"[text extraction failed] ", "[text key missing] ", "[segment processing error] "}
ExpectedFragments(entry) ==
    IF entry.shape \in {"dict", "object", "namedtuple"} THEN {entry.text \o " "} ELSE Placeholders

RECURSIVE ExpectedJoins(_)
ExpectedJoins(segs) ==
    IF segs = <<>> THEN {""}
    ELSE {f \o rest : f \in ExpectedFragments(Head(segs)), rest \in ExpectedJoins(Tail(segs))}

\* C4: once the segments are fetched, the call returns the trimmed join of one
\* fragment per segment, in order: the text of a readable segment, exactly one
\* placeholder for an unreadable one; it never returns a failure message.
C4_NeverAborts ==
    \A r \in Requests :
        (Called(r) /\ call[r].fetched # None /\ provider[r].fault.step # "fetch") =>
            /\ call[r].path = "flattened"
            /\ \E joined \in ExpectedJoins(provider[r].segments) : call[r].val = Strip(joined)

\* the substring after the first watch-URL marker, up to the next "&"
AfterWatchMarker(s) == Split(From(s, Find(s, WatchMarker) + Len(WatchMarker)), "&")[1]

\* C5: for an input holding the watch-URL marker the resolved identifier is
\* the text after the marker up to the next "&".
C5_WatchIdentifier ==
    \A r \in Requests :
        (Called(r) /\ Contains(video_input[r], WatchMarker)) =>
            call[r].video_id = Some(AfterWatchMarker(video_input[r]))

MarkerFree(s) ==
    ~Contains(s, WatchMarker) /\ ~Contains(s, ShortLinkMarker) /\ ~Contains(s, ShortsMarker)
BareIdChars ==
    {"a", "b", "c", "d", "e", "f", "g", "h", "i", "j", "k", "l", "m", "n", "o", "p", "q", "r", "s",
     "t", "u", "v", "w", "x", "y", "z", "A", "B", "C", "D", "E", "F", "G", "H", "I", "J", "K", "L",
     "M", "N", "O", "P", "Q", "R", "S", "T", "U", "V", "W", "X", "Y", "Z", "0", "1", "2", "3", "4",
     "5", "6", "7", "8", "9", "-", "_"}
IsBareId(s) == Len(s) = 11 /\ \A i \in 1..11 : SubSeq(s, i, i) \in BareIdChars

\* C6: for an input without any of the three markers, the input itself is the
\* identifier handed to the provider exactly when it is 11 characters of
\* letters, digits, "-" and "_"; otherwise the invalid-format message with the
\* raw input is returned and the provider is not called.
C6_BareIdentifier ==
    \A r \in Requests :
        (Called(r) /\ MarkerFree(video_input[r])) =>
            IF IsBareId(video_input[r])
            THEN call[r].video_id = Some(video_input[r]) /\ call[r].listed
            ELSE /\ call[r].video_id = None
                 /\ ~call[r].listed
                 /\ call[r].fetched = None
                 /\ call[r].path = "invalid_format"
                 /\ call[r].val = "Invalid video ID or URL format: " \o video_input[r]

\* an 11-character identifier put together from two fragments went to the provider
C6_Witness ==
    \E r \in Requests :
        /\ video_input[r] = "dQw4w9WgXcQ"
        /\ call[r].video_id = Some("dQw4w9WgXcQ")
        /\ call[r].listed
        /\ pc[r] = "done"

\* C7: when get_youtube_transcript returned a failure message and not a
\* flattened transcript, index() treats it as an error: no transcript, the
\* message as the error, no file and no file name.
C7_FailureIsError ==
    \A r \in Requests :
        (Called(r) /\ call[r].kind = "return" /\ call[r].path # "flattened") =>
            /\ transcript_text[r] = None
            /\ error_message[r] = Some(call[r].val)
            /\ filename_on_server[r] = None
            /\ pc[r] \in {"render", "done"}
            /\ \A f \in files : f.by # r

HasWarning(r) ==
    /\ error_message[r] # None
    /\ \/ Contains(error_message[r][1], "Could not create save directory on server")
       \/ Contains(error_message[r][1], "Transcript fetched, but error saving to file")

\* C8 as stated: after any file-system failure of a request its transcript is
\* the fetched text, its error carries a warning and, once rendered, no file
\* name is reported; a file name is reported only without any such failure.
C8_AnyFailureSuppressesFilename ==
    \A r \in Requests :
        /\ fs_errors[r] # {} =>
              /\ transcript_text[r] = Some(call[r].val)
              /\ HasWarning(r)
              /\ filename_on_server[r] = None
        /\ filename_on_server[r] # None => fs_errors[r] = {}

\* C8 as amended: a failed makedirs or a failed write leaves the fetched text
\* as the transcript and puts its warning in the error; a failed write leaves
\* no file name; a file name is reported exactly when the request's write
\* succeeded, whether or not its makedirs failed.
C8_WriteFailureSuppressesFilename ==
    \A r \in Requests :
        /\ "makedirs" \in fs_errors[r] =>
              /\ transcript_text[r] = Some(call[r].val)
              /\ error_message[r] # None
              /\ Contains(error_message[r][1], "Could not create save directory on server")
        /\ "write" \in fs_errors[r] =>
              /\ transcript_text[r] = Some(call[r].val)
              /\ error_message[r] # None
              /\ Contains(error_message[r][1], "Transcript fetched, but error saving to file")
              /\ filename_on_server[r] = None
        /\ filename_on_server[r] # None <=>
              /\ Rendered(r)
              /\ call[r].path = "flattened"
              /\ transcript_text[r] \notin {None, Some("")}
              /\ ~IsError(call[r].val)
              /\ "write" \notin fs_errors[r]
        /\ filename_on_server[r] # None =>
              \E f \in files : f.path = save_directory \o "/" \o filename_on_server[r][1]

\* a request whose makedirs and write both failed was rendered with its transcript
C8_Witness ==
    \E r \in Requests :
        /\ pc[r] = "done"
        /\ fs_errors[r] = {"makedirs", "write"}
        /\ transcript_text[r] = Some("Never gonna give you up")
        /\ filename_on_server[r] = None

\* C9: two requests that saved transcripts of different video identifiers
\* wrote different files.
C9_OwnFile ==
    \A a, b \in Requests :
        (/\ filename_on_server[a] # None
         /\ filename_on_server[b] # None
         /\ call[a].video_id # call[b].video_id) =>
            filename_on_server[a] # filename_on_server[b]

\* C10: when the fetch succeeded, the identifier part index() derives for the
\* file name is the identifier get_youtube_transcript resolved.
C10_SameIdentifier ==
    \A r \in Requests :
        (Called(r) /\ call[r].path = "flattened" /\ filename_on_server[r] # None) =>
            Some(VidIdPart(video_input[r])) = call[r].video_id

====
